---- MODULE Spec2Model ----
(***************************************************************************)
(* Model of the approval workflow engine and the version control engine    *)
(* of the policy backend (backend/app/workflow, backend/app/versioning,    *)
(* backend/app/policy).                                                    *)
(*                                                                         *)
(* Six specifications are given over the same database state:              *)
(*   Spec    every request handler runs to completion on its own           *)
(*           (requests are served one after the other); the workflow       *)
(*           calls of every actor, with the calls that share their rows;   *)
(*   SpecVc  handlers served one after the other as well; the version      *)
(*           API with rollback and the structure editor, with the          *)
(*           workflow calls of one submitter;                              *)
(*   SpecTpl template administration (create_template behind the AI        *)
(*           validator) with the workflow calls of one submitter on the    *)
(*           created templates;                                            *)
(*   SpecDiff  compare_versions and its structural diff over every pair    *)
(*           of stored snapshots of a bounded shape;                       *)
(*   SpecTx  two requests run as concurrent SQL transactions under the     *)
(*           engine's default isolation (READ COMMITTED, no row locking,   *)
(*           no version counter): each statement reads the latest          *)
(*           committed rows, writes become visible at commit.              *)
(*   SpecTxVc  two lock requests of the version API run as concurrent      *)
(*           transactions in the same way.                                 *)
(***************************************************************************)
EXTENDS Naturals, Integers, Sequences, FiniteSets, Bags, TLC

(***************************************************************************)
(* Bounds of the model                                                     *)
(***************************************************************************)
MaxInstances == 2
MaxActions == 3
MaxVersion == 3
MaxAudit == 6
MaxSaves == 1

(***************************************************************************)
(* The fixed population: users, roles, policies, templates                 *)
(***************************************************************************)
Users == {"u1", "u2", "u3"}
Submitters == {"u1", "u3"}          \* the users who submit in the model
Rejecters == {"u2"}                 \* the users who reject in the model
VersionActors == {"u3"}             \* the users who call the version API in the model
Policies == {"p1"}
AdminRoleName == "Admin"
TemplateIds == {"t1", "t2"}
MissingTemplate == "t0"
\* the (template, submitter) pairs of the submit calls in the model
SubmitInputs ==
    {<<t, u>> \in (TemplateIds \cup {MissingTemplate}) \X Submitters :
        u = "u3" => t = "t1"}
ALLOWED_STATUSES ==
    {"draft", "validation_failed", "pending_approval", "approved", "rejected", "archived"}
UpdateStatuses == {"approved"}      \* the statuses update_policy sets in the model
NoUser == "none"
InitialStructure == "s0"            \* the document_structure create_policy stores
Structures == {"s1"}                \* the structures saved in the model
EnhancedStructures == {"s2"}        \* the structures the enhancer returns in the model

VARIABLES
    policy_metadata,            \* policy_id -> [status, is_locked, current_version]
    policy_versions,            \* rows of policy_versions, in insertion order
    policy_workflow_instances,  \* rows of policy_workflow_instances; the id is the index
    workflow_actions,           \* rows of workflow_actions, in insertion order
    templates,                  \* template_id -> its levels, ordered by level_number
    users,                      \* user_id -> [role_id, is_active]
    audit_logs,                 \* bag of audit_logs rows
    response,                   \* outcome of the last request served
    tx,                         \* request slot -> the transaction it runs (SpecTx)
    policy_documents,           \* documents of the Mongo collection; the _id is the index
    structure_saves             \* policy_id -> number of structure saves served so far

vars == <<policy_metadata, policy_versions, policy_workflow_instances,
          workflow_actions, templates, users, audit_logs, response, tx,
          policy_documents, structure_saves>>

(***************************************************************************)
(* Rows and lookups                                                        *)
(***************************************************************************)
NoLevel == [level_number |-> 0, role_id |-> "none", is_parallel |-> FALSE]

Level(n, r, par) == [level_number |-> n, role_id |-> r, is_parallel |-> par]

\* user_id, details and created_at of an audit_logs row are left out
AuditLog(action, entity_type, entity_id) ==
    [action |-> action, entity_type |-> entity_type, entity_id |-> entity_id]

WorkflowAction_AfterAdvance(instance_id, user_id, level_number, action) ==
    [instance_id |-> instance_id, user_id |-> user_id,
     level_number |-> level_number + 1, action |-> action]

WorkflowAction(instance_id, user_id, level_number, action) ==
    [instance_id |-> instance_id, user_id |-> user_id,
     level_number |-> level_number, action |-> action]

PolicyWorkflowInstance(policy_id, template_id, user_id) ==
    [policy_id |-> policy_id, template_id |-> template_id,
     current_level |-> 1, status |-> "in_progress", submitted_by |-> user_id]

PolicyVersion(policy_id, version_number, mongo_snapshot_id) ==
    [policy_id |-> policy_id, version_number |-> version_number,
     mongo_snapshot_id |-> mongo_snapshot_id,
     is_locked |-> FALSE, approved_by |-> NoUser]

\* a document of policy_documents: the live document of a version, or a snapshot
PolicyDocument(policy_id, version, document_structure, is_snapshot) ==
    [policy_id |-> policy_id, version |-> version,
     document_structure |-> document_structure, is_snapshot |-> is_snapshot]

PolicyMetadata ==
    [status |-> "draft", is_locked |-> FALSE, current_version |-> 1]

Response(op, user_id, instance_id, result) ==
    [op |-> op, user_id |-> user_id, instance_id |-> instance_id, result |-> result]

NoTx == [pc |-> "idle"]
NoPolicy == [status |-> "none"]

\* number of rows of a table (a sequence) that satisfy Test
Count(rows, Test(_)) == Cardinality({k \in DOMAIN rows : Test(rows[k])})

\* max(l.level_number for l in template.levels)
MaxLevelNumber(levels) ==
    CHOOSE n \in {levels[k].level_number : k \in DOMAIN levels} :
        \A k \in DOMAIN levels : levels[k].level_number <= n

\* next((l for l in template.levels if l.level_number == current_level), None)
CurrentLevelObj(levels, current_level) ==
    LET hits == {k \in DOMAIN levels : levels[k].level_number = current_level}
    IN IF hits = {} THEN NoLevel
       ELSE levels[CHOOSE k \in hits : \A j \in hits : k <= j]

\* select count() from users where role_id = :role and is_active  ... or 1
TotalRoleUsers(roster, role_id) ==
    LET n == Cardinality({u \in DOMAIN roster :
                 roster[u].role_id = role_id /\ roster[u].is_active})
    IN IF n = 0 THEN 1 ELSE n

\* select count() from workflow_actions
\*   where instance_id = :i and level_number = :n and action = 'approve'
ApprovalCount(actions, instance_id, level_number) ==
    LET IsApproval(a) == /\ a.instance_id = instance_id
                         /\ a.level_number = level_number
                         /\ a.action = "approve"
    IN Count(actions, IsApproval)

\* the level-completion test of approve_action, evaluated after the
\* caller's own action row has been flushed
LevelComplete(level, roster, actions, instance_id, level_number) ==
    IF level.is_parallel
    THEN ApprovalCount(actions, instance_id, level_number)
             >= TotalRoleUsers(roster, level.role_id)
    ELSE TRUE

\* the rows _get_latest_version may return: highest version_number first
LatestVersions(versions, policy_id) ==
    {k \in DOMAIN versions :
        /\ versions[k].policy_id = policy_id
        /\ \A j \in DOMAIN versions :
              versions[j].policy_id = policy_id
                  => versions[j].version_number <= versions[k].version_number}

\* the rows get_version selects
VersionsNumbered(versions, policy_id, version_number) ==
    {k \in DOMAIN versions :
        /\ versions[k].policy_id = policy_id
        /\ versions[k].version_number = version_number}

\* the documents find_one(..., sort=[("version", -1)]) may return
LatestDocuments(docs, policy_id) ==
    {k \in DOMAIN docs :
        /\ docs[k].policy_id = policy_id
        /\ \A j \in DOMAIN docs :
              docs[j].policy_id = policy_id => docs[j].version <= docs[k].version}

Log(logs, rec) == logs (+) SetToBag({rec})

\* what the client gets when _log_audit_independent raises: the handlers do
\* not catch it, the routers turn only ValueError into a 400
InternalServerError == "Internal Server Error"

AuditRoom(n) == BagCardinality(audit_logs) + n <= MaxAudit

SaveRoom(policy_id) == structure_saves[policy_id] < MaxSaves

(***************************************************************************)
(* The preconditions of the handlers, as the code tests them, in order     *)
(***************************************************************************)
\* submit_for_approval without the test of lines 238-239
SubmitPrecondition_NoLockTest(policy, template_id, tpls) ==
    IF policy.status = "validation_failed" THEN "INVALID_STRUCTURE"
    ELSE IF policy.status \notin {"draft", "rejected"}
        THEN "Can only submit draft or rejected policies"
    ELSE IF template_id \notin DOMAIN tpls THEN "Template not found"
    ELSE IF Len(tpls[template_id]) = 0 THEN "Template has no approval levels"
    ELSE "ok"

\* submit_for_approval accepting draft policies only at line 236
SubmitPrecondition_DraftOnly(policy, template_id, tpls) ==
    IF policy.status = "validation_failed" THEN "INVALID_STRUCTURE"
    ELSE IF policy.status # "draft"
        THEN "Can only submit draft or rejected policies"
    ELSE IF policy.is_locked THEN "Policy is currently locked for editing"
    ELSE IF template_id \notin DOMAIN tpls THEN "Template not found"
    ELSE IF Len(tpls[template_id]) = 0 THEN "Template has no approval levels"
    ELSE "ok"

\* submit_for_approval, lines 233-244
SubmitPrecondition(policy, template_id, tpls) ==
    IF policy.status = "validation_failed" THEN "INVALID_STRUCTURE"
    ELSE IF policy.status \notin {"draft", "rejected"}
        THEN "Can only submit draft or rejected policies"
    ELSE IF policy.is_locked THEN "Policy is currently locked for editing"
    ELSE IF template_id \notin DOMAIN tpls THEN "Template not found"
    ELSE IF Len(tpls[template_id]) = 0 THEN "Template has no approval levels"
    ELSE "ok"

\* approve_action without the test of lines 297-298
ApprovePrecondition_NoMakerChecker(inst, user_id, tpls, roster) ==
    IF inst.status # "in_progress" THEN "Workflow is not in progress"
    ELSE IF CurrentLevelObj(tpls[inst.template_id], inst.current_level) = NoLevel
        THEN "Current level not found in template"
    ELSE IF /\ roster[user_id].role_id
                 # CurrentLevelObj(tpls[inst.template_id], inst.current_level).role_id
            /\ roster[user_id].role_id # AdminRoleName
        THEN "You do not have the required role for this approval level"
    ELSE "ok"

\* approve_action, lines 293-315
\* the precondition of approve_action without the role test of lines 309-315
ApprovePrecondition_NoRoleTest(inst, user_id, tpls, roster) ==
    IF inst.status # "in_progress" THEN "Workflow is not in progress"
    ELSE IF inst.submitted_by = user_id
        THEN "Cannot approve your own submission (maker-checker violation)"
    ELSE IF CurrentLevelObj(tpls[inst.template_id], inst.current_level) = NoLevel
        THEN "Current level not found in template"
    ELSE "ok"

ApprovePrecondition(inst, user_id, tpls, roster) ==
    IF inst.status # "in_progress" THEN "Workflow is not in progress"
    ELSE IF inst.submitted_by = user_id
        THEN "Cannot approve your own submission (maker-checker violation)"
    ELSE IF CurrentLevelObj(tpls[inst.template_id], inst.current_level) = NoLevel
        THEN "Current level not found in template"
    ELSE IF /\ roster[user_id].role_id
                 # CurrentLevelObj(tpls[inst.template_id], inst.current_level).role_id
            /\ roster[user_id].role_id # AdminRoleName
        THEN "You do not have the required role for this approval level"
    ELSE "ok"

\* reject_action, lines 385-386
\* reject_action without the test of lines 385-386
RejectPrecondition_NoStatusTest(inst) == "ok"

RejectPrecondition(inst) ==
    IF inst.status # "in_progress" THEN "Workflow is not in progress" ELSE "ok"

(***************************************************************************)
(* Initial state: the seeded roles and users, the stored templates, and    *)
(* one policy as create_policy leaves it                                   *)
(***************************************************************************)
InitUsers ==
    [u \in Users |->
        [role_id |-> IF u = "u3" THEN AdminRoleName ELSE "Committee",
         is_active |-> TRUE]]

InitTemplates ==
    [t \in TemplateIds |->
        IF t = "t1"
        THEN <<Level(1, "Committee", FALSE), Level(2, AdminRoleName, FALSE)>>
        ELSE <<Level(1, "Committee", TRUE)>>]

\* create_policy, lines 101-107
InitDocuments == <<PolicyDocument("p1", 1, InitialStructure, FALSE)>>

Init ==
    /\ policy_metadata = [p \in Policies |-> PolicyMetadata]
    /\ policy_versions = <<>>
    /\ policy_workflow_instances = <<>>
    /\ workflow_actions = <<>>
    /\ templates = InitTemplates
    /\ users = InitUsers
    /\ audit_logs = SetToBag({AuditLog("POLICY_CREATED", "policy", p) : p \in Policies})
    /\ response = Response("create_policy", NoUser, 0, "ok")
    /\ tx = [r \in {"r1", "r2"} |-> NoTx]
    /\ policy_documents = InitDocuments
    /\ structure_saves = [p \in Policies |-> 0]

(***************************************************************************)
(* Version control engine                                                  *)
(***************************************************************************)
\* a lock test that looks at every version of the policy, not at the latest
LatestIsLocked_AnyVersion(versions, policy_id, locked) ==
    locked = (\E k \in DOMAIN versions :
                 versions[k].policy_id = policy_id /\ versions[k].is_locked)

\* a snapshot that does not test the lock of the latest version
LatestIsLocked_NotTested(versions, policy_id, locked) == locked = FALSE

\* create_version_snapshot, lines 41-43: is the latest version locked?
LatestIsLocked(versions, policy_id, locked) ==
    IF LatestVersions(versions, policy_id) = {}
    THEN locked = FALSE
    ELSE \E k \in LatestVersions(versions, policy_id) : locked = versions[k].is_locked

\* a snapshot that stores the structure the policy was created with
SnapshotDocument_Stale(docs, policy_id, policy, k) ==
    Append(docs, PolicyDocument(policy_id, policy.current_version, InitialStructure, TRUE))

\* create_version_snapshot, lines 48-64: the copy of the latest document
SnapshotDocument(docs, policy_id, policy, k) ==
    Append(docs, PolicyDocument(policy_id, policy.current_version,
                                docs[k].document_structure, TRUE))

\* create_version_snapshot, lines 66-79: the row added and the counter bumped
SnapshotVersions(versions, policy_id, policy, mongo_snapshot_id) ==
    Append(versions, PolicyVersion(policy_id, policy.current_version, mongo_snapshot_id))

SnapshotPolicy(policy) ==
    [policy EXCEPT !.current_version = policy.current_version + 1]

\* POST /policies/{policy_id}/versions
CreateVersionSnapshot(policy_id, user_id) ==
    \E locked \in BOOLEAN :
        /\ LatestIsLocked(policy_versions, policy_id, locked)
        /\ IF locked
           THEN /\ response' = Response("create_version", NoUser, 0,
                                        "Current version is locked (approved)")
                /\ UNCHANGED <<policy_metadata, policy_versions, policy_documents>>
           ELSE /\ policy_metadata[policy_id].current_version < MaxVersion
                /\ \E k \in LatestDocuments(policy_documents, policy_id) :
                     policy_documents' = SnapshotDocument(policy_documents, policy_id,
                                             policy_metadata[policy_id], k)
                /\ policy_versions' =
                       SnapshotVersions(policy_versions, policy_id,
                           policy_metadata[policy_id], Len(policy_documents) + 1)
                /\ policy_metadata' =
                       [policy_metadata EXCEPT ![policy_id] = SnapshotPolicy(@)]
                /\ response' = Response("create_version", NoUser, 0, "ok")
        /\ UNCHANGED <<policy_workflow_instances, workflow_actions, templates, structure_saves,
                       users, audit_logs, tx>>

\* lock_version, lines 195-197
LockedVersion(version, user_id) ==
    [version EXCEPT !.is_locked = TRUE, !.approved_by = user_id]

\* POST /policies/{policy_id}/versions/{version_number}/lock
LockVersion(policy_id, version_number, user_id) ==
    LET rows == VersionsNumbered(policy_versions, policy_id, version_number)
    IN /\ IF Cardinality(rows) > 1
          THEN /\ response' = Response("lock_version", NoUser, 0,
                                       "MultipleResultsFound")
               /\ UNCHANGED policy_versions
          ELSE IF rows = {}
          THEN /\ response' = Response("lock_version", NoUser, 0, "Version not found")
               /\ UNCHANGED policy_versions
          ELSE LET k == CHOOSE k \in rows : TRUE
               IN IF policy_versions[k].is_locked
                  THEN /\ response' = Response("lock_version", NoUser, 0,
                                               "Version is already locked")
                       /\ UNCHANGED policy_versions
                  ELSE /\ policy_versions' =
                              [policy_versions EXCEPT ![k] = LockedVersion(@, user_id)]
                       /\ response' = Response("lock_version", NoUser, 0, "ok")
       /\ UNCHANGED <<policy_metadata, policy_workflow_instances, workflow_actions,
                      templates, structure_saves, policy_documents, users, audit_logs, tx>>

\* the documents find_one({"is_snapshot": {"$ne": True}}, sort version desc)
\* of rollback_to_version may return
LatestLiveDocuments(docs, policy_id) ==
    {k \in DOMAIN docs :
        /\ docs[k].policy_id = policy_id
        /\ ~docs[k].is_snapshot
        /\ \A j \in DOMAIN docs :
              (docs[j].policy_id = policy_id /\ ~docs[j].is_snapshot)
                  => docs[j].version <= docs[k].version}

\* a rollback that renumbers the live document and keeps its structure
RestoredDocument_NotRestored(docs, policy, k, mongo_snapshot_id) ==
    [docs EXCEPT ![k].version = policy.current_version]

\* rollback_to_version, lines 234-242: the live document takes the structure
\* of the snapshot and the number of the current version
RestoredDocument(docs, policy, k, mongo_snapshot_id) ==
    [docs EXCEPT ![k].document_structure = docs[mongo_snapshot_id].document_structure,
                 ![k].version = policy.current_version]

\* POST /policies/{policy_id}/versions/{version_number}/rollback
RollbackToVersion(policy_id, version_number, user_id) ==
    LET rows == VersionsNumbered(policy_versions, policy_id, version_number)
    IN \E locked \in BOOLEAN :
        /\ LatestIsLocked(policy_versions, policy_id, locked)
        /\ IF locked
           THEN /\ response' = Response("rollback_version", NoUser, 0,
                                        "Current version is locked (approved)")
                /\ UNCHANGED <<policy_metadata, policy_versions, policy_documents>>
           ELSE IF Cardinality(rows) > 1
           THEN /\ response' = Response("rollback_version", NoUser, 0,
                                        "MultipleResultsFound")
                /\ UNCHANGED <<policy_metadata, policy_versions, policy_documents>>
           ELSE IF rows = {}
           THEN /\ response' = Response("rollback_version", NoUser, 0,
                                        "Version snapshot not found")
                /\ UNCHANGED <<policy_metadata, policy_versions, policy_documents>>
           ELSE LET source == policy_versions[CHOOSE k \in rows : TRUE]
                IN /\ policy_metadata[policy_id].current_version < MaxVersion
                   /\ \E k \in LatestLiveDocuments(policy_documents, policy_id) :
                        policy_documents' =
                            RestoredDocument(policy_documents, policy_metadata[policy_id],
                                             k, source.mongo_snapshot_id)
                   /\ policy_versions' =
                          SnapshotVersions(policy_versions, policy_id,
                              policy_metadata[policy_id], source.mongo_snapshot_id)
                   /\ policy_metadata' =
                          [policy_metadata EXCEPT ![policy_id] = SnapshotPolicy(@)]
                   /\ response' = Response("rollback_version", NoUser, 0, "ok")
        /\ UNCHANGED <<policy_workflow_instances, workflow_actions, templates,
                       structure_saves, users, audit_logs, tx>>

(***************************************************************************)
(* Policy metadata                                                         *)
(***************************************************************************)
\* update_policy, lines 208-209; PolicyUpdate.status_valid admits ALLOWED_STATUSES
UpdatePolicy(policy_id, status) ==
    /\ status \in ALLOWED_STATUSES
    /\ policy_metadata' = [policy_metadata EXCEPT ![policy_id].status = status]
    /\ response' = Response("update_policy", NoUser, 0, "ok")
    /\ UNCHANGED <<policy_versions, policy_workflow_instances, workflow_actions,
                   templates, structure_saves, policy_documents, users, audit_logs, tx>>

\* the documents replace_one of save_manual_structure matches, lines 422-423
LiveDocumentsAt(docs, policy_id, version) ==
    {k \in DOMAIN docs :
        /\ docs[k].policy_id = policy_id
        /\ docs[k].version = version
        /\ ~docs[k].is_snapshot}

\* replace_one(..., upsert=True), lines 414-426
UpsertDocument(docs, policy_id, version, structure) ==
    LET hits == LiveDocumentsAt(docs, policy_id, version)
        doc == PolicyDocument(policy_id, version, structure, FALSE)
    IN IF hits = {} THEN Append(docs, doc)
       ELSE [docs EXCEPT ![CHOOSE k \in hits : \A j \in hits : k <= j] = doc]

SaveOutcomes == {"unprocessable", "validation_failed", "ok"}

\* POST /policies/{policy_id}/structure/manual
\*   unprocessable      local validation fails or the validator is unavailable
\*   validation_failed  the validator reports an error
\*   ok                 the structure is stored
SaveManualStructure(policy_id, structure, outcome) ==
    /\ IF outcome = "unprocessable"
       THEN UNCHANGED structure_saves
       ELSE /\ SaveRoom(policy_id)
            /\ structure_saves' = [structure_saves EXCEPT ![policy_id] = @ + 1]
    /\ \E audit_ok \in BOOLEAN :
         IF outcome = "unprocessable"
         THEN /\ response' = Response("save_structure", NoUser, 0, outcome)
              /\ UNCHANGED <<policy_metadata, policy_documents, audit_logs>>
         ELSE IF outcome = "validation_failed"
         THEN IF ~audit_ok
              \* line 386 raises before the commit of line 398
              THEN /\ response' = Response("save_structure", NoUser, 0,
                                           InternalServerError)
                   /\ UNCHANGED <<policy_metadata, policy_documents, audit_logs>>
              ELSE /\ AuditRoom(1)
                   /\ policy_metadata' = [policy_metadata EXCEPT
                          ![policy_id].status = "validation_failed"]
                   /\ audit_logs' = Log(audit_logs,
                          AuditLog("VALIDATION_REJECTED", "policy", policy_id))
                   /\ response' = Response("save_structure", NoUser, 0, outcome)
                   /\ UNCHANGED policy_documents
         ELSE /\ policy_documents' = UpsertDocument(policy_documents, policy_id,
                     policy_metadata[policy_id].current_version, structure)
              /\ IF ~audit_ok
                 \* line 432 raises after the document was replaced
                 THEN /\ response' = Response("save_structure", NoUser, 0,
                                              InternalServerError)
                      /\ UNCHANGED <<policy_metadata, audit_logs>>
                 ELSE /\ AuditRoom(1)
                      /\ policy_metadata' = [policy_metadata EXCEPT
                             ![policy_id].status = "draft"]
                      /\ audit_logs' = Log(audit_logs,
                             AuditLog("STRUCTURE_SAVED", "policy", policy_id))
                      /\ response' = Response("save_structure", NoUser, 0, outcome)
    /\ UNCHANGED <<policy_versions, policy_workflow_instances, workflow_actions,
                   templates, users, tx>>

\* POST /policies/{policy_id}/structure/enhance
\*   available   the enhancer answers: the enhanced structure is inserted as a
\*               new live document numbered current_version + 1 and the
\*               counter is bumped; no PolicyVersion row is written
EnhanceStructure(policy_id, structure, available) ==
    /\ IF ~available
       THEN /\ response' = Response("enhance_structure", NoUser, 0,
                                    "AI service unavailable")
            /\ UNCHANGED <<policy_metadata, policy_documents>>
       ELSE /\ policy_metadata[policy_id].current_version < MaxVersion
            /\ policy_documents' =
                   Append(policy_documents,
                       PolicyDocument(policy_id,
                           policy_metadata[policy_id].current_version + 1,
                           structure, FALSE))
            /\ policy_metadata' = [policy_metadata EXCEPT ![policy_id] = SnapshotPolicy(@)]
            /\ response' = Response("enhance_structure", NoUser, 0, "ok")
    /\ UNCHANGED <<policy_versions, policy_workflow_instances, workflow_actions,
                   templates, structure_saves, users, audit_logs, tx>>

(***************************************************************************)
(* Workflow engine: what the handlers write                                *)
(***************************************************************************)
\* submit_for_approval, lines 247-248
SubmittedPolicy(policy) ==
    [policy EXCEPT !.status = "pending_approval", !.is_locked = TRUE]

\* approve_action, lines 352-367
ApprovedInstance(inst, level_complete, max_level) ==
    IF ~level_complete THEN inst
    ELSE IF inst.current_level >= max_level
        THEN [inst EXCEPT !.status = "approved"]
        ELSE [inst EXCEPT !.current_level = inst.current_level + 1]

\* approve_action, lines 358-362
ApprovedPolicy(policy) ==
    [policy EXCEPT !.status = "approved", !.is_locked = TRUE]

\* approve_action, lines 363 and 369
ApproveAudit(logs, policy_id, instance_id, final) ==
    LET approved == AuditLog("APPROVED", "workflow_instance", ToString(instance_id))
    IN IF final
       THEN Log(Log(logs, AuditLog("VERSION_LOCKED", "policy", policy_id)), approved)
       ELSE Log(logs, approved)

\* approve_action, line 363 written and line 369 raising
ApproveAuditPartial(logs, policy_id, written) ==
    IF written = 1 THEN Log(logs, AuditLog("VERSION_LOCKED", "policy", policy_id))
    ELSE logs

\* reject_action, line 398
RejectedInstance(inst) == [inst EXCEPT !.status = "rejected"]

\* reject_action that leaves the policy locked
RejectedPolicy_StaysLocked(policy) ==
    [policy EXCEPT !.status = "rejected"]

\* reject_action, lines 402-406
RejectedPolicy(policy) ==
    [policy EXCEPT !.status = "rejected", !.is_locked = FALSE]

(***************************************************************************)
(* Workflow engine: the handlers, each served on its own                   *)
(***************************************************************************)
\* POST /{policy_id}/submit
Submit(policy_id, template_id, user_id) ==
    LET policy == policy_metadata[policy_id]
        err == SubmitPrecondition(policy, template_id, templates)
        new_id == Len(policy_workflow_instances) + 1
    IN IF err # "ok"
       THEN /\ response' = Response("submit", user_id, 0, err)
            /\ UNCHANGED <<policy_metadata, policy_versions, policy_workflow_instances,
                           workflow_actions, templates, structure_saves, policy_documents, users, audit_logs, tx>>
       ELSE \E audit_ok \in BOOLEAN :
            IF ~audit_ok
            \* line 261 raises: get_db rolls the session back
            THEN /\ response' = Response("submit", user_id, 0, InternalServerError)
                 /\ UNCHANGED <<policy_metadata, policy_versions,
                                policy_workflow_instances, workflow_actions,
                                templates, structure_saves, policy_documents, users, audit_logs, tx>>
            ELSE /\ AuditRoom(1)
                 \* the audit row is committed by its own session, line 261
                 /\ audit_logs' = Log(audit_logs,
                        AuditLog("SUBMITTED_FOR_APPROVAL", "policy", policy_id))
                 /\ \E locked \in BOOLEAN :
                      /\ LatestIsLocked(policy_versions, policy_id, locked)
                      /\ IF locked
                         \* create_version_snapshot raises: get_db rolls the session back
                         THEN /\ response' = Response("submit", user_id, 0,
                                                 "Current version is locked (approved)")
                              /\ UNCHANGED <<policy_metadata, policy_versions,
                                             policy_workflow_instances, policy_documents>>
                         ELSE /\ Len(policy_workflow_instances) < MaxInstances
                              /\ policy.current_version < MaxVersion
                              /\ policy_workflow_instances' =
                                     Append(policy_workflow_instances,
                                         PolicyWorkflowInstance(policy_id, template_id, user_id))
                              /\ \E k \in LatestDocuments(policy_documents, policy_id) :
                                   policy_documents' = SnapshotDocument(policy_documents,
                                                           policy_id, policy, k)
                              /\ policy_versions' =
                                     SnapshotVersions(policy_versions, policy_id, policy,
                                         Len(policy_documents) + 1)
                              /\ policy_metadata' = [policy_metadata EXCEPT
                                     ![policy_id] = SnapshotPolicy(SubmittedPolicy(policy))]
                              /\ response' = Response("submit", user_id, new_id, "ok")
                 /\ UNCHANGED <<workflow_actions, templates, structure_saves, users, tx>>

\* POST /instances/{instance_id}/approve
Approve(instance_id, user_id) ==
    LET inst == policy_workflow_instances[instance_id]
        err == ApprovePrecondition(inst, user_id, templates, users)
        levels == templates[inst.template_id]
        level == CurrentLevelObj(levels, inst.current_level)
        actions == Append(workflow_actions,
                       WorkflowAction(instance_id, user_id, inst.current_level, "approve"))
        level_complete ==
            LevelComplete(level, users, actions, instance_id, inst.current_level)
        inst_after == ApprovedInstance(inst, level_complete, MaxLevelNumber(levels))
        final == inst_after.status = "approved"
        audit_writes == IF final THEN 2 ELSE 1
    IN IF err # "ok"
       THEN /\ response' = Response("approve", user_id, instance_id, err)
            /\ UNCHANGED <<policy_metadata, policy_versions, policy_workflow_instances,
                           workflow_actions, templates, structure_saves, policy_documents, users, audit_logs, tx>>
       ELSE \E written \in 0..audit_writes :
            IF written < audit_writes
            \* line 363 or 369 raises: the rows written before stay, get_db
            \* rolls the session back
            THEN /\ AuditRoom(written)
                 /\ audit_logs' = ApproveAuditPartial(audit_logs, inst.policy_id, written)
                 /\ response' = Response("approve", user_id, instance_id,
                                         InternalServerError)
                 /\ UNCHANGED <<policy_metadata, policy_versions,
                                policy_workflow_instances, workflow_actions,
                                templates, structure_saves, policy_documents, users, tx>>
            ELSE /\ Len(workflow_actions) < MaxActions
                 /\ AuditRoom(audit_writes)
                 /\ workflow_actions' = actions
                 /\ policy_workflow_instances' =
                        [policy_workflow_instances EXCEPT ![instance_id] = inst_after]
                 /\ policy_metadata' =
                        IF final
                        THEN [policy_metadata EXCEPT ![inst.policy_id] = ApprovedPolicy(@)]
                        ELSE policy_metadata
                 /\ audit_logs' =
                        ApproveAudit(audit_logs, inst.policy_id, instance_id, final)
                 /\ response' = Response("approve", user_id, instance_id, "ok")
                 /\ UNCHANGED <<policy_versions, templates, structure_saves, policy_documents, users, tx>>

\* POST /instances/{instance_id}/reject
Reject(instance_id, user_id) ==
    LET inst == policy_workflow_instances[instance_id]
        err == RejectPrecondition(inst)
    IN IF err # "ok"
       THEN /\ response' = Response("reject", user_id, instance_id, err)
            /\ UNCHANGED <<policy_metadata, policy_versions, policy_workflow_instances,
                           workflow_actions, templates, structure_saves, policy_documents, users, audit_logs, tx>>
       ELSE \E audit_ok \in BOOLEAN :
            IF ~audit_ok
            \* line 408 raises: get_db rolls the session back
            THEN /\ response' = Response("reject", user_id, instance_id,
                                         InternalServerError)
                 /\ UNCHANGED <<policy_metadata, policy_versions,
                                policy_workflow_instances, workflow_actions,
                                templates, structure_saves, policy_documents, users, audit_logs, tx>>
            ELSE /\ Len(workflow_actions) < MaxActions
                 /\ AuditRoom(1)
                 /\ workflow_actions' = Append(workflow_actions,
                        WorkflowAction(instance_id, user_id, inst.current_level, "reject"))
                 /\ policy_workflow_instances' =
                        [policy_workflow_instances EXCEPT ![instance_id] = RejectedInstance(@)]
                 /\ policy_metadata' =
                        [policy_metadata EXCEPT ![inst.policy_id] = RejectedPolicy(@)]
                 /\ audit_logs' = Log(audit_logs,
                        AuditLog("REJECTED", "workflow_instance", ToString(instance_id)))
                 /\ response' = Response("reject", user_id, instance_id, "ok")
                 /\ UNCHANGED <<policy_versions, templates, structure_saves, policy_documents, users, tx>>

(***************************************************************************)
(* Requests served one after the other                                     *)
(***************************************************************************)
Next ==
    \/ \E p \in Policies, in \in SubmitInputs : Submit(p, in[1], in[2])
    \/ \E i \in DOMAIN policy_workflow_instances, u \in Users : Approve(i, u)
    \/ \E i \in DOMAIN policy_workflow_instances, u \in Rejecters : Reject(i, u)
    \/ \E p \in Policies, u \in VersionActors : CreateVersionSnapshot(p, u)
    \/ \E p \in Policies, v \in 1..(MaxVersion - 1), u \in VersionActors :
           LockVersion(p, v, u)
    \/ \E p \in Policies, s \in UpdateStatuses : UpdatePolicy(p, s)
    \/ \E p \in Policies, s \in Structures, o \in SaveOutcomes :
           SaveManualStructure(p, s, o)

Spec == Init /\ [][Next]_vars

(***************************************************************************)
(* Version control: the version API with rollback, the structure editor    *)
(* and the workflow calls of one submitter on the sequential template,     *)
(* which snapshot on submit and lock on the final approval.                *)
(***************************************************************************)
VcTemplates == {"t1"}
VcSubmitters == {"u1"}
VcApprovers == {"u2", "u3"}

NextVc ==
    \/ \E p \in Policies, t \in VcTemplates, u \in VcSubmitters : Submit(p, t, u)
    \/ \E i \in DOMAIN policy_workflow_instances, u \in VcApprovers : Approve(i, u)
    \/ \E i \in DOMAIN policy_workflow_instances, u \in Rejecters : Reject(i, u)
    \/ \E p \in Policies, u \in VersionActors : CreateVersionSnapshot(p, u)
    \/ \E p \in Policies, v \in 1..(MaxVersion - 1), u \in VersionActors :
           LockVersion(p, v, u)
    \/ \E p \in Policies, v \in 1..(MaxVersion - 1), u \in VersionActors :
           RollbackToVersion(p, v, u)
    \/ \E p \in Policies, s \in UpdateStatuses : UpdatePolicy(p, s)
    \/ \E p \in Policies, s \in Structures, o \in SaveOutcomes :
           SaveManualStructure(p, s, o)
    \/ \E p \in Policies, s \in EnhancedStructures, a \in BOOLEAN :
           EnhanceStructure(p, s, a)

SpecVc == Init /\ [][NextVc]_vars

(***************************************************************************)
(* Template administration: create_template, gated by the AI validator,    *)
(* with the workflow calls of one submitter on the created templates.      *)
(***************************************************************************)
MaxTemplates == 1

Severities == {"error", "warning"}

\* The level lists sent to create_template in the model (TemplateCreate,
\* LevelSchema): level_number is any integer, the list may be empty.
TemplateRequests ==
    { <<>>,
      <<Level(1, "Committee", FALSE)>>,
      <<Level(1, "Committee", FALSE), Level(2, "Committee", FALSE)>>,
      <<Level(1, "Committee", FALSE), Level(3, "Committee", FALSE)>>,
      <<Level(2, "Committee", FALSE)>>,
      <<Level(1, "Committee", FALSE), Level(1, "Committee", FALSE)>> }

\* What the AI provider answers to the validation prompt: nothing
\* (AIProviderError), or a JSON object with a valid flag and a list of
\* issues, of which the severities present are kept.
ValidatorReplies ==
    { r \in [available : BOOLEAN, valid : BOOLEAN, issues : SUBSET Severities] :
        ~r.available => (r.valid /\ r.issues = {}) }

EmptyTemplate == "At least one approval level is required (maker-checker)"
ValidatorUnavailable ==
    "AI template validation failed. Cannot create template without validation."
TemplateRejected == "Template failed AI validation"

\* _parse_validation_result: an error issue forces valid to False.
ParseValidationResult(data) ==
    [valid |-> IF "error" \in data.issues THEN FALSE ELSE data.valid,
     issues |-> data.issues]

HasErrors_Ignored(ai_validation) == FALSE

HasErrors(ai_validation) == "error" \in ai_validation.issues

\* template.levels is loaded ordered by level_number.
StoredLevels(levels_data) ==
    SortSeq(levels_data, LAMBDA a, b : a.level_number < b.level_number)

NewTemplateId(tpls) == "t" \o ToString(Cardinality(DOMAIN tpls) + 1)

TemplateRoom == Cardinality(DOMAIN templates \ TemplateIds) < MaxTemplates

CreateTemplateResult(levels_data, reply) ==
    IF Len(levels_data) < 1 THEN EmptyTemplate
    ELSE IF ~reply.available THEN ValidatorUnavailable
    ELSE IF HasErrors(ParseValidationResult(reply)) THEN TemplateRejected
    ELSE "ok"

CreateTemplate(levels_data, reply, user_id) ==
    LET result == CreateTemplateResult(levels_data, reply) IN
    /\ result = "ok" => TemplateRoom
    /\ templates' =
           IF result = "ok"
           THEN templates @@ (NewTemplateId(templates) :> StoredLevels(levels_data))
           ELSE templates
    /\ response' = Response("create_template", user_id, 0, result)
    /\ UNCHANGED <<policy_metadata, policy_versions, policy_workflow_instances,
                   workflow_actions, users, audit_logs, tx, policy_documents,
                   structure_saves>>

TemplateAdmins == {"u3"}
CreatedTemplates == DOMAIN templates \ TemplateIds

NextTpl ==
    \/ \E l \in TemplateRequests, r \in ValidatorReplies, u \in TemplateAdmins :
           CreateTemplate(l, r, u)
    \/ \E p \in Policies, t \in CreatedTemplates, u \in VcSubmitters : Submit(p, t, u)
    \/ \E i \in DOMAIN policy_workflow_instances, u \in VcApprovers : Approve(i, u)
    \/ \E i \in DOMAIN policy_workflow_instances, u \in Rejecters : Reject(i, u)

SpecTpl == Init /\ [][NextTpl]_vars

(***************************************************************************)
(* Version comparison: compare_versions over two stored snapshots, with    *)
(* the structural diff _compute_diff.  A document_structure is the dump    *)
(* of DocumentStructure: a header with the keys of HeaderSchema and a list *)
(* of sections, each with a title and a list of subsections; section       *)
(* titles may repeat (enhance_structure stores what the AI returns without *)
(* _validate_structure).                                                   *)
(***************************************************************************)
MaxSections == 2
MaxSubsections == 1

NoStructure == << >>          \* None, or a document without document_structure
NoneValue == "None"

Headers ==
    [title : {"T1", "T2"}, organization : {""},
     effective_date : {NoneValue}, expiry_date : {NoneValue}]

SectionTitles == {"A", "B"}

SubsectionLists == {[k \in 1..n |-> "sub"] : n \in 0..MaxSubsections}

SectionLists ==
    UNION {[1..n -> [title : SectionTitles, subsections : SubsectionLists]] :
              n \in 0..MaxSections}

DiffStructures == [header : Headers, sections : SectionLists]

\* dict.get(key, default)
Get(d, key, default) == IF key \in DOMAIN d THEN d[key] ELSE default

\* not base: None and the empty dict are both false
Falsy(structure) == DOMAIN structure = {}

Change(type, path, detail) == [type |-> type, path |-> path, detail |-> detail]

\* lines 293-297; the arrow of the detail text is written in ASCII
HeaderChanges(bh, ch) ==
    {Change("modified", "header." \o key,
            "'" \o Get(bh, key, "") \o "' -> '" \o Get(ch, key, "") \o "'") :
        key \in {k \in DOMAIN bh \cup DOMAIN ch :
                    Get(bh, k, NoneValue) # Get(ch, k, NoneValue)}}

\* the keys of {s.get("title", ""): s for s in sections}
Titles(sections) == {Get(sections[k], "title", "") : k \in DOMAIN sections}

\* the value of that dict at a title: a later section replaces an earlier
\* one with the same title
SectionByTitle(sections, title) ==
    sections[CHOOSE k \in DOMAIN sections :
                /\ Get(sections[k], "title", "") = title
                /\ \A j \in DOMAIN sections :
                       Get(sections[j], "title", "") = title => j <= k]

\* the subsections not counted
SubsectionCount_NotCounted(section) == 0

SubsectionCount(section) == Len(Get(section, "subsections", << >>))

\* lines 299-319
SectionChanges(base_sections, comp_sections) ==
    LET base_titles == Titles(base_sections)
        comp_titles == Titles(comp_sections)
    IN  {Change("added", "sections", "Section '" \o t \o "' added") :
            t \in comp_titles \ base_titles}
        \cup
        {Change("removed", "sections", "Section '" \o t \o "' removed") :
            t \in base_titles \ comp_titles}
        \cup
        {Change("modified", "sections." \o t,
                "Subsections: "
                    \o ToString(SubsectionCount(SectionByTitle(base_sections, t)))
                    \o " -> "
                    \o ToString(SubsectionCount(SectionByTitle(comp_sections, t)))) :
            t \in {x \in base_titles \cap comp_titles :
                      SubsectionCount(SectionByTitle(base_sections, x))
                          # SubsectionCount(SectionByTitle(comp_sections, x))}}

Unchanged ==
    Change("unchanged", "document_structure", "No structural changes detected")

\* _compute_diff; the entries of the list it returns (no entry repeats)
ComputeDiff(base, compare, base_v, compare_v) ==
    IF Falsy(base) /\ Falsy(compare) THEN {}
    ELSE IF Falsy(base)
        THEN {Change("added", "document_structure",
                     "Entire structure added in v" \o ToString(compare_v))}
    ELSE IF Falsy(compare)
        THEN {Change("removed", "document_structure",
                     "Entire structure removed in v" \o ToString(compare_v))}
    ELSE LET changes ==
                 HeaderChanges(Get(base, "header", << >>), Get(compare, "header", << >>))
                 \cup SectionChanges(Get(base, "sections", << >>),
                                     Get(compare, "sections", << >>))
         IN IF changes = {} THEN {Unchanged} ELSE changes

\* compare_versions, lines 146-161: the structure of a version, None when
\* the version has no row
VersionStructure(versions, docs, policy_id, version_number) ==
    IF VersionsNumbered(versions, policy_id, version_number) = {}
    THEN NoStructure
    ELSE LET k == CHOOSE x \in VersionsNumbered(versions, policy_id, version_number) : TRUE
         IN docs[versions[k].mongo_snapshot_id].document_structure

DiffAnalysisFailed ==
    "AI version analysis failed. Cannot provide diff interpretation."

CompareResult(status, base_v, compare_v, base, compare, changes) ==
    [status |-> status, base_version |-> base_v, compare_version |-> compare_v,
     base_structure |-> base, compare_structure |-> compare, changes |-> changes]

CompareVersions(policy_id, base_v, compare_v, user_id, ai_available) ==
    LET base == VersionStructure(policy_versions, policy_documents, policy_id, base_v)
        compare == VersionStructure(policy_versions, policy_documents,
                                    policy_id, compare_v)
        changes == ComputeDiff(base, compare, base_v, compare_v)
    IN /\ Cardinality(VersionsNumbered(policy_versions, policy_id, base_v)) <= 1
       /\ Cardinality(VersionsNumbered(policy_versions, policy_id, compare_v)) <= 1
       /\ response' = Response("compare_versions", user_id, 0,
              IF ai_available
              THEN CompareResult("ok", base_v, compare_v, base, compare, changes)
              ELSE CompareResult(DiffAnalysisFailed, base_v, compare_v,
                                 NoStructure, NoStructure, {}))
       /\ UNCHANGED <<policy_metadata, policy_versions, policy_workflow_instances,
                      workflow_actions, templates, users, audit_logs, tx,
                      policy_documents, structure_saves>>

\* A policy at version 3 whose versions 1 and 2 hold two snapshots.
InitDiff ==
    \E base \in DiffStructures, compare \in DiffStructures :
        /\ policy_metadata = [p \in Policies |-> [PolicyMetadata EXCEPT !.current_version = 3]]
        /\ policy_versions = <<PolicyVersion("p1", 1, 1), PolicyVersion("p1", 2, 2)>>
        /\ policy_documents = <<PolicyDocument("p1", 1, base, TRUE),
                                PolicyDocument("p1", 2, compare, TRUE),
                                PolicyDocument("p1", 3, compare, FALSE)>>
        /\ policy_workflow_instances = <<>>
        /\ workflow_actions = <<>>
        /\ templates = InitTemplates
        /\ users = InitUsers
        /\ audit_logs = SetToBag({AuditLog("POLICY_CREATED", "policy", p) : p \in Policies})
        /\ response = Response("create_policy", NoUser, 0,
                          CompareResult("ok", 0, 0, NoStructure, NoStructure, {}))
        /\ tx = [r \in {"r1", "r2"} |-> NoTx]
        /\ structure_saves = [p \in Policies |-> 0]

NextDiff ==
    \E p \in Policies, base_v \in 1..MaxVersion, compare_v \in 1..MaxVersion,
       u \in VersionActors, ai_available \in BOOLEAN :
        CompareVersions(p, base_v, compare_v, u, ai_available)

SpecDiff == InitDiff /\ [][NextDiff]_vars

(***************************************************************************)
(* Requests as concurrent transactions.  Each request runs in its own      *)
(* session (get_db): it loads rows when its statement executes, works on   *)
(* the loaded copies, and its INSERTs and UPDATEs become visible to the    *)
(* other session when get_db commits.  No statement of the engine locks a  *)
(* row for reading and no model carries a version counter, so an UPDATE    *)
(* writes the columns the session changed over whatever is committed.      *)
(***************************************************************************)
Requests == {"r1", "r2"}
TxSubmitters == {"u1"}              \* the users who submit in concurrent requests

\* the session a new request is served in: the first one that is free
FreeSession == IF tx["r1"].pc = "idle" THEN "r1" ELSE "r2"

\* the UPDATE a flush emits for a loaded row: the changed columns only
WriteBack(committed, loaded, modified) ==
    [f \in DOMAIN committed |->
        IF modified[f] # loaded[f] THEN modified[f] ELSE committed[f]]

\* submit_for_approval up to line 261: load the policy, test, write the audit row
TxSubmitBegin(r, policy_id, template_id, user_id) ==
    LET policy == policy_metadata[policy_id]
        err == SubmitPrecondition(policy, template_id, templates)
    IN /\ r = FreeSession
       /\ tx[r].pc = "idle"
       /\ IF err # "ok"
          THEN /\ response' = Response("submit", user_id, 0, err)
               /\ UNCHANGED <<audit_logs, tx>>
          ELSE \E audit_ok \in BOOLEAN :
               IF ~audit_ok
               THEN /\ response' = Response("submit", user_id, 0, InternalServerError)
                    /\ UNCHANGED <<audit_logs, tx>>
               ELSE /\ AuditRoom(1)
                    /\ audit_logs' = Log(audit_logs,
                           AuditLog("SUBMITTED_FOR_APPROVAL", "policy", policy_id))
                    /\ tx' = [tx EXCEPT ![r] =
                           [pc |-> "submit", user_id |-> user_id, policy_id |-> policy_id,
                            template_id |-> template_id, policy |-> policy]]
                    /\ UNCHANGED response
       /\ UNCHANGED <<policy_metadata, policy_versions, policy_workflow_instances,
                      workflow_actions, templates, structure_saves, policy_documents, users>>

\* submit_for_approval from line 265: snapshot, flush, commit (or roll back)
TxSubmitCommit(r) ==
    LET t == tx[r]
        new_id == Len(policy_workflow_instances) + 1
    IN /\ t.pc = "submit"
       /\ \E locked \in BOOLEAN :
            /\ LatestIsLocked(policy_versions, t.policy_id, locked)
            /\ IF locked
               THEN /\ response' = Response("submit", t.user_id, 0,
                                       "Current version is locked (approved)")
                    /\ UNCHANGED <<policy_metadata, policy_versions,
                                   policy_workflow_instances, policy_documents>>
               ELSE /\ Len(policy_workflow_instances) < MaxInstances
                    /\ t.policy.current_version < MaxVersion
                    /\ \E k \in LatestDocuments(policy_documents, t.policy_id) :
                         policy_documents' = SnapshotDocument(policy_documents,
                                                 t.policy_id, t.policy, k)
                    /\ policy_workflow_instances' =
                           Append(policy_workflow_instances,
                               PolicyWorkflowInstance(t.policy_id, t.template_id, t.user_id))
                    /\ policy_versions' =
                           SnapshotVersions(policy_versions, t.policy_id, t.policy,
                               Len(policy_documents) + 1)
                    /\ policy_metadata' = [policy_metadata EXCEPT ![t.policy_id] =
                           WriteBack(@, t.policy, SnapshotPolicy(SubmittedPolicy(t.policy)))]
                    /\ response' = Response("submit", t.user_id, new_id, "ok")
       /\ tx' = [tx EXCEPT ![r] = NoTx]
       /\ UNCHANGED <<workflow_actions, templates, structure_saves, users, audit_logs>>

\* approve_action, lines 292-315: load the instance and test
TxApproveBegin(r, instance_id, user_id) ==
    LET inst == policy_workflow_instances[instance_id]
        err == ApprovePrecondition(inst, user_id, templates, users)
    IN /\ r = FreeSession
       /\ tx[r].pc = "idle"
       /\ IF err # "ok"
          THEN /\ response' = Response("approve", user_id, instance_id, err)
               /\ UNCHANGED tx
          ELSE /\ tx' = [tx EXCEPT ![r] =
                      [pc |-> "approve", user_id |-> user_id,
                       instance_id |-> instance_id, inst |-> inst]]
               /\ UNCHANGED response
       /\ UNCHANGED <<policy_metadata, policy_versions, policy_workflow_instances,
                      workflow_actions, templates, structure_saves, policy_documents, users, audit_logs>>

\* approve_action, lines 317-367: flush the own action row, count, decide
TxApproveEvaluate(r) ==
    LET t == tx[r]
        levels == templates[t.inst.template_id]
        level == CurrentLevelObj(levels, t.inst.current_level)
        \* the rows the session sees: the committed ones and its own
        actions == Append(workflow_actions,
                       WorkflowAction(t.instance_id, t.user_id,
                                      t.inst.current_level, "approve"))
        level_complete ==
            LevelComplete(level, users, actions, t.instance_id, t.inst.current_level)
        inst_after == ApprovedInstance(t.inst, level_complete, MaxLevelNumber(levels))
    IN /\ t.pc = "approve"
       /\ tx' = [tx EXCEPT ![r] =
              [pc |-> "approve_flush", user_id |-> t.user_id,
               instance_id |-> t.instance_id, inst |-> t.inst,
               inst_after |-> inst_after,
               \* line 359 loads the policy row when the level was the last
               policy |-> IF inst_after.status = "approved"
                          THEN policy_metadata[t.inst.policy_id]
                          ELSE NoPolicy]]
       /\ UNCHANGED <<policy_metadata, policy_versions, policy_workflow_instances,
                      workflow_actions, templates, structure_saves, policy_documents, users, audit_logs, response>>

\* approve_action, lines 358-370, and the commit (or rollback) of get_db
TxApproveCommit(r) ==
    LET t == tx[r]
        final == t.inst_after.status = "approved"
        audit_writes == IF final THEN 2 ELSE 1
    IN /\ t.pc = "approve_flush"
       /\ \E written \in 0..audit_writes :
            IF written < audit_writes
            THEN /\ AuditRoom(written)
                 /\ audit_logs' = ApproveAuditPartial(audit_logs, t.inst.policy_id, written)
                 /\ response' = Response("approve", t.user_id, t.instance_id,
                                         InternalServerError)
                 /\ UNCHANGED <<workflow_actions, policy_workflow_instances,
                                policy_metadata>>
            ELSE /\ Len(workflow_actions) < MaxActions
                 /\ AuditRoom(audit_writes)
                 /\ workflow_actions' = Append(workflow_actions,
                        WorkflowAction(t.instance_id, t.user_id,
                                       t.inst.current_level, "approve"))
                 /\ policy_workflow_instances' = [policy_workflow_instances EXCEPT
                        ![t.instance_id] = WriteBack(@, t.inst, t.inst_after)]
                 /\ policy_metadata' =
                        IF final
                        THEN [policy_metadata EXCEPT ![t.inst.policy_id] =
                                  WriteBack(@, t.policy, ApprovedPolicy(t.policy))]
                        ELSE policy_metadata
                 /\ audit_logs' =
                        ApproveAudit(audit_logs, t.inst.policy_id, t.instance_id, final)
                 /\ response' = Response("approve", t.user_id, t.instance_id, "ok")
       /\ tx' = [tx EXCEPT ![r] = NoTx]
       /\ UNCHANGED <<policy_versions, templates, structure_saves, policy_documents, users>>

\* reject_action, lines 384-386: load the instance and test
TxRejectBegin(r, instance_id, user_id) ==
    LET inst == policy_workflow_instances[instance_id]
        err == RejectPrecondition(inst)
    IN /\ r = FreeSession
       /\ tx[r].pc = "idle"
       /\ IF err # "ok"
          THEN /\ response' = Response("reject", user_id, instance_id, err)
               /\ UNCHANGED tx
          ELSE /\ tx' = [tx EXCEPT ![r] =
                      [pc |-> "reject", user_id |-> user_id,
                       instance_id |-> instance_id, inst |-> inst]]
               /\ UNCHANGED response
       /\ UNCHANGED <<policy_metadata, policy_versions, policy_workflow_instances,
                      workflow_actions, templates, structure_saves, policy_documents, users, audit_logs>>

\* reject_action, lines 388-409, and the commit (or rollback) of get_db
TxRejectCommit(r) ==
    LET t == tx[r]
    IN /\ t.pc = "reject"
       /\ \E audit_ok \in BOOLEAN :
            IF ~audit_ok
            THEN /\ response' = Response("reject", t.user_id, t.instance_id,
                                         InternalServerError)
                 /\ UNCHANGED <<workflow_actions, policy_workflow_instances,
                                policy_metadata, audit_logs>>
            ELSE /\ Len(workflow_actions) < MaxActions
                 /\ AuditRoom(1)
                 /\ workflow_actions' = Append(workflow_actions,
                        WorkflowAction(t.instance_id, t.user_id,
                                       t.inst.current_level, "reject"))
                 /\ policy_workflow_instances' = [policy_workflow_instances EXCEPT
                        ![t.instance_id] = WriteBack(@, t.inst, RejectedInstance(t.inst))]
                 /\ policy_metadata' =
                        [policy_metadata EXCEPT ![t.inst.policy_id] = RejectedPolicy(@)]
                 /\ audit_logs' = Log(audit_logs,
                        AuditLog("REJECTED", "workflow_instance", ToString(t.instance_id)))
                 /\ response' = Response("reject", t.user_id, t.instance_id, "ok")
       /\ tx' = [tx EXCEPT ![r] = NoTx]
       /\ UNCHANGED <<policy_versions, templates, structure_saves, policy_documents, users>>

NextTx ==
    \/ \E r \in Requests, p \in Policies, t \in TemplateIds, u \in TxSubmitters :
           TxSubmitBegin(r, p, t, u)
    \/ \E r \in Requests : TxSubmitCommit(r)
    \/ \E r \in Requests, i \in DOMAIN policy_workflow_instances, u \in Users :
           TxApproveBegin(r, i, u)
    \/ \E r \in Requests : TxApproveEvaluate(r)
    \/ \E r \in Requests : TxApproveCommit(r)
    \/ \E r \in Requests, i \in DOMAIN policy_workflow_instances, u \in Rejecters :
           TxRejectBegin(r, i, u)
    \/ \E r \in Requests : TxRejectCommit(r)

SpecTx == Init /\ [][NextTx]_vars

(***************************************************************************)
(* Version API requests as concurrent transactions: lock_version loads the *)
(* PolicyVersion row without locking it, tests it, and its UPDATE is       *)
(* applied at the flush over whatever is committed by then.                *)
(***************************************************************************)
TxLockers == {"u2", "u3"}           \* the users who lock in concurrent requests

\* lock_version, lines 189-193: load the row and test
TxLockBegin(r, policy_id, version_number, user_id) ==
    LET rows == VersionsNumbered(policy_versions, policy_id, version_number)
    IN /\ r = FreeSession
       /\ tx[r].pc = "idle"
       /\ IF Cardinality(rows) > 1
          THEN /\ response' = Response("lock_version", NoUser, 0, "MultipleResultsFound")
               /\ UNCHANGED tx
          ELSE IF rows = {}
          THEN /\ response' = Response("lock_version", NoUser, 0, "Version not found")
               /\ UNCHANGED tx
          ELSE LET k == CHOOSE k \in rows : TRUE
               IN IF policy_versions[k].is_locked
                  THEN /\ response' = Response("lock_version", NoUser, 0,
                                               "Version is already locked")
                       /\ UNCHANGED tx
                  ELSE /\ tx' = [tx EXCEPT ![r] =
                              [pc |-> "lock", user_id |-> user_id, row |-> k,
                               version |-> policy_versions[k]]]
                       /\ UNCHANGED response
       /\ UNCHANGED <<policy_metadata, policy_versions, policy_workflow_instances,
                      workflow_actions, templates, structure_saves, policy_documents,
                      users, audit_logs>>

\* lock_version, lines 195-200, and the commit of get_db
TxLockCommit(r) ==
    LET t == tx[r]
    IN /\ t.pc = "lock"
       /\ policy_versions' = [policy_versions EXCEPT ![t.row] =
              WriteBack(@, t.version, LockedVersion(t.version, t.user_id))]
       /\ response' = Response("lock_version", NoUser, 0, "ok")
       /\ tx' = [tx EXCEPT ![r] = NoTx]
       /\ UNCHANGED <<policy_metadata, policy_workflow_instances, workflow_actions,
                      templates, structure_saves, policy_documents, users, audit_logs>>

NextTxVc ==
    \/ \E p \in Policies, u \in VersionActors : CreateVersionSnapshot(p, u)
    \/ \E p \in Policies, s \in Structures, o \in SaveOutcomes :
           SaveManualStructure(p, s, o)
    \/ \E r \in Requests, p \in Policies, v \in 1..(MaxVersion - 1), u \in TxLockers :
           TxLockBegin(r, p, v, u)
    \/ \E r \in Requests : TxLockCommit(r)

SpecTxVc == Init /\ [][NextTxVc]_vars

(***************************************************************************)
(* Vocabulary of the properties                                            *)
(***************************************************************************)
NotInProgress == "Workflow is not in progress"
SelfApproval == "Cannot approve your own submission (maker-checker violation)"

Instances == DOMAIN policy_workflow_instances

\* the request served last, and how it ended
Served(op) == response.op = op
Succeeded(op) == response.op = op /\ response.result = "ok"

\* the users with an approve row at this instance and level
Approvers(actions, instance_id, level_number) ==
    {actions[k].user_id : k \in {j \in DOMAIN actions :
        /\ actions[j].instance_id = instance_id
        /\ actions[j].level_number = level_number
        /\ actions[j].action = "approve"}}

\* the level the instance is at
LevelOf(inst) == CurrentLevelObj(templates[inst.template_id], inst.current_level)

\* this step completes the level the instance was at
CompletesLevel(i) ==
    /\ i \in Instances
    /\ policy_workflow_instances[i].status = "in_progress"
    /\ \/ policy_workflow_instances'[i].current_level
            # policy_workflow_instances[i].current_level
       \/ policy_workflow_instances'[i].status = "approved"

(***************************************************************************)
(* C1. Maker-checker: an approve call by the user who submitted the        *)
(* instance fails with the self-approval error, and no approve row of the  *)
(* submitter is ever recorded for the instance.                            *)
(***************************************************************************)
C1_SelfApprovalError ==
    (Served("approve")
        /\ response.user_id = policy_workflow_instances[response.instance_id].submitted_by)
    => response.result = SelfApproval

(***************************************************************************)
(* C1, amended. An approve call by the submitter never succeeds: it fails  *)
(* with the self-approval error while the instance is in progress and with *)
(* the not-in-progress error otherwise, and no approve row of the          *)
(* submitter is ever recorded for the instance.                            *)
(***************************************************************************)
C1_MakerChecker ==
    /\ (Served("approve")
          /\ response.user_id = policy_workflow_instances[response.instance_id].submitted_by)
       => response.result =
              IF policy_workflow_instances[response.instance_id].status = "in_progress"
              THEN SelfApproval ELSE NotInProgress
    /\ \A k \in DOMAIN workflow_actions :
          workflow_actions[k].action = "approve"
          => workflow_actions[k].user_id
                 # policy_workflow_instances[workflow_actions[k].instance_id].submitted_by

\* the Admin submitter is refused the approval of the own submission
C1_Witness ==
    /\ Served("approve")
    /\ response.result = SelfApproval
    /\ users[response.user_id].role_id = AdminRoleName
    /\ response.user_id = policy_workflow_instances[response.instance_id].submitted_by

(***************************************************************************)
(* C2. Approving the final level yields at once: instance approved,        *)
(* policy approved and locked, and the policy's latest PolicyVersion       *)
(* locked with approved_by = the approver; no approved instance has an     *)
(* unlocked latest PolicyVersion.                                          *)
(***************************************************************************)
C2_FinalApprovalLocksVersion ==
    /\ \A i \in Instances :
          policy_workflow_instances[i].status = "approved"
          => LET latest == LatestVersions(policy_versions,
                                          policy_workflow_instances[i].policy_id)
             IN /\ latest # {}
                /\ \A k \in latest : policy_versions[k].is_locked
    /\ (Succeeded("approve")
          /\ policy_workflow_instances[response.instance_id].status = "approved")
       => LET inst == policy_workflow_instances[response.instance_id]
          IN /\ policy_metadata[inst.policy_id].status = "approved"
             /\ policy_metadata[inst.policy_id].is_locked
             /\ \A k \in LatestVersions(policy_versions, inst.policy_id) :
                   /\ policy_versions[k].is_locked
                   /\ policy_versions[k].approved_by = response.user_id

(***************************************************************************)
(* C3. A parallel level completes only when as many distinct users have    *)
(* approved it as its role has active holders, and a second approve by a   *)
(* user who already approved the level succeeds without adding a row,      *)
(* advancing the level or changing the status.                             *)
(***************************************************************************)
C3_StepDistinctApprovers ==
    \A i \in Instances :
        (CompletesLevel(i) /\ LevelOf(policy_workflow_instances[i]).is_parallel)
        => Cardinality(Approvers(workflow_actions', i,
                                 policy_workflow_instances[i].current_level))
               >= TotalRoleUsers(users, LevelOf(policy_workflow_instances[i]).role_id)

C3_StepDuplicateIsNoOp ==
    \A i \in Instances :
        (/\ response'.op = "approve"
         /\ response'.instance_id = i
         /\ policy_workflow_instances[i].status = "in_progress"
         /\ LevelOf(policy_workflow_instances[i]).is_parallel
         /\ response'.user_id \in Approvers(workflow_actions, i,
                                      policy_workflow_instances[i].current_level))
        => /\ response'.result = "ok"
           /\ UNCHANGED <<workflow_actions, policy_workflow_instances>>

C3_ParallelDistinctUsers ==
    [][C3_StepDistinctApprovers /\ C3_StepDuplicateIsNoOp]_vars

(***************************************************************************)
(* C4. When a parallel level completes, every active holder of the level's *)
(* role has an approve row at that instance and level; approvals of Admin  *)
(* users or of inactive users do not stand in for a missing holder.        *)
(***************************************************************************)
C4_StepAllHoldersApproved ==
    \A i \in Instances :
        (CompletesLevel(i) /\ LevelOf(policy_workflow_instances[i]).is_parallel)
        => \A u \in Users :
              (/\ users[u].is_active
               /\ users[u].role_id = LevelOf(policy_workflow_instances[i]).role_id)
              => u \in Approvers(workflow_actions', i,
                                 policy_workflow_instances[i].current_level)

C4_AllActiveHoldersApproved == [][C4_StepAllHoldersApproved]_vars

(***************************************************************************)
(* C5. A successful reject of an in-progress instance, at any level,       *)
(* leaves the instance rejected with its current_level unchanged, the      *)
(* policy rejected and unlocked, and appends exactly one reject row        *)
(* stamped with the instance's current level.                              *)
(***************************************************************************)
C5_StepReject ==
    (response'.op = "reject" /\ response'.result = "ok")
    => LET i == response'.instance_id
           inst == policy_workflow_instances[i]
       IN /\ inst.status = "in_progress"
          /\ policy_workflow_instances' = [policy_workflow_instances EXCEPT
                 ![i] = [inst EXCEPT !.status = "rejected"]]
          /\ workflow_actions' = Append(workflow_actions,
                 WorkflowAction(i, response'.user_id, inst.current_level, "reject"))
          /\ policy_metadata'[inst.policy_id].status = "rejected"
          /\ policy_metadata'[inst.policy_id].is_locked = FALSE

C7_LockedWhileInProgressOrApproved ==
    \A p \in Policies :
        (\/ policy_metadata[p].status = "approved"
         \/ \E i \in Instances :
               /\ policy_workflow_instances[i].policy_id = p
               /\ policy_workflow_instances[i].status = "in_progress")
        => policy_metadata[p].is_locked

\* the action rows of one instance, in insertion order
ActionsOf(actions, i) == SelectSeq(actions, LAMBDA a : a.instance_id = i)

\* this step ends a request of the given kind with success
Commits(op) ==
    /\ response'.op = op
    /\ response'.result = "ok"
    /\ \/ tx' = tx
       \/ \E r \in Requests : tx[r].pc # "idle" /\ tx'[r].pc = "idle"

(***************************************************************************)
(* C6. An instance that is approved or rejected stays as it is: in every   *)
(* execution its status and current_level never change again, and an       *)
(* approve or reject call made on it afterwards ends with the              *)
(* not-in-progress error and records no action row.                        *)
(***************************************************************************)
C6_StepTerminal ==
    \A i \in Instances :
        policy_workflow_instances[i].status # "in_progress"
        => /\ policy_workflow_instances'[i] = policy_workflow_instances[i]
           \* a call that starts on the terminal instance is answered at once
           /\ (response' # response
                 /\ tx' = tx
                 /\ response'.op \in {"approve", "reject"}
                 /\ response'.instance_id = i)
              => /\ response'.result = NotInProgress
                 /\ ActionsOf(workflow_actions', i) = ActionsOf(workflow_actions, i)

C6_TerminalStatus == [][C6_StepTerminal]_vars

(***************************************************************************)
(* C8. At most one workflow instance of a policy is in progress at any     *)
(* time, also when two submit calls for the policy run concurrently.       *)
(***************************************************************************)
C8_OneInProgressPerPolicy ==
    \A p \in Policies :
        Cardinality({i \in Instances :
            /\ policy_workflow_instances[i].policy_id = p
            /\ policy_workflow_instances[i].status = "in_progress"}) <= 1

(***************************************************************************)
(* C9. Approve calls on one instance are linearizable.  In every serial    *)
(* order a sequential level takes exactly one approve row, recorded by the *)
(* call that completes it: so a sequential level below the current level   *)
(* (or the current level of an approved instance) has exactly one approve  *)
(* row, and every other sequential level has none.                         *)
(***************************************************************************)
C9_SequentialLevelApprovedOnce ==
    \A i \in Instances :
        LET inst == policy_workflow_instances[i]
            levels == templates[inst.template_id]
        IN \A k \in DOMAIN levels :
              ~levels[k].is_parallel
              => ApprovalCount(workflow_actions, i, levels[k].level_number)
                   = IF \/ levels[k].level_number < inst.current_level
                        \/ /\ levels[k].level_number = inst.current_level
                           /\ inst.status = "approved"
                     THEN 1 ELSE 0

(***************************************************************************)
(* C10. When a reject races with the approve that completes the final      *)
(* level, exactly one of the two takes effect: the instance never passes   *)
(* from one terminal status into the other, the call that commits second   *)
(* does not succeed, and the call that succeeds leaves instance and policy *)
(* both approved (policy locked) or both rejected (policy unlocked).       *)
(***************************************************************************)
C10_StepExclusive ==
    \A i \in Instances :
        LET before == policy_workflow_instances[i].status
            after == policy_workflow_instances'[i].status
            policy_after == policy_metadata'[policy_workflow_instances[i].policy_id]
        IN /\ before = "approved" => after # "rejected"
           /\ before = "rejected" => after # "approved"
           /\ (Commits("approve") /\ response'.instance_id = i)
              => (after = "approved"
                  => policy_after.status = "approved" /\ policy_after.is_locked)
           /\ (Commits("reject") /\ response'.instance_id = i)
              => /\ before # "approved"
                 /\ after = "rejected"
                 /\ policy_after.status = "rejected" /\ ~policy_after.is_locked

C10_RejectApproveRace == [][C10_StepExclusive]_vars

\* the calls of the workflow engine
WorkflowOps == {"submit", "approve", "reject"}

(***************************************************************************)
(* C11. Every successful submit, approve or reject call appends exactly    *)
(* one audit record, whether or not it completes a level or the workflow   *)
(* (so submit, approve, approve on a two-level template leaves 2 action    *)
(* rows and 3 audit records of the workflow).                              *)
(***************************************************************************)
C11_StepOneAuditRecord ==
    (response'.op \in WorkflowOps /\ response'.result = "ok")
    => BagCardinality(audit_logs') = BagCardinality(audit_logs) + 1

C11_OneAuditRecordPerCall == [][C11_StepOneAuditRecord]_vars

(***************************************************************************)
(* C12. A failure of the audit write never reverses a workflow transition: *)
(* no submit, approve or reject call fails because the audit append        *)
(* raised.                                                                 *)
(***************************************************************************)
C12_AuditFailureKeepsTransition ==
    response.op \in WorkflowOps => response.result # InternalServerError

(***************************************************************************)
(* C13. A workflow call that fails leaves no audit record behind: a        *)
(* submit, approve or reject that ends with an error adds nothing to       *)
(* audit_logs.                                                             *)
(***************************************************************************)
C13_StepFailedCallNoAudit ==
    (response'.op \in WorkflowOps /\ response'.result # "ok")
    => audit_logs' = audit_logs

C13_FailedCallLeavesNoAudit == [][C13_StepFailedCallNoAudit]_vars

PolicyLocked == "Policy is currently locked for editing"
InvalidPolicyState == "Can only submit draft or rejected policies"

\* a submit call is served in this step
SubmitCall(p, u) == \E t \in TemplateIds \cup {MissingTemplate} : Submit(p, t, u)

(***************************************************************************)
(* C14. submit on a locked policy always fails with the policy-locked      *)
(* error, whatever the policy's status and whatever the template, and      *)
(* leaves policy, instances and versions unchanged.                        *)
(***************************************************************************)
C14_StepLockedSubmit ==
    \A p \in Policies, u \in Submitters :
        (SubmitCall(p, u) /\ policy_metadata[p].is_locked)
        => /\ response'.result = PolicyLocked
           /\ UNCHANGED <<policy_metadata, policy_workflow_instances, policy_versions>>

C14_LockedSubmitPolicyLocked == [][C14_StepLockedSubmit]_vars

(***************************************************************************)
(* C14, amended. submit on a locked policy always fails, whatever the      *)
(* template, and leaves policy, instances, versions, actions and audit     *)
(* records unchanged; the error is the policy-locked error when the        *)
(* policy's status is draft or rejected, and the error of the status test  *)
(* (which runs first) otherwise.                                           *)
(***************************************************************************)
C14_StepLockedSubmitFails ==
    \A p \in Policies, u \in Submitters :
        (SubmitCall(p, u) /\ policy_metadata[p].is_locked)
        => /\ response'.result =
                  IF policy_metadata[p].status = "validation_failed"
                  THEN "INVALID_STRUCTURE"
                  ELSE IF policy_metadata[p].status \in {"draft", "rejected"}
                       THEN PolicyLocked ELSE InvalidPolicyState
           /\ UNCHANGED <<policy_metadata, policy_workflow_instances, policy_versions,
                          workflow_actions, audit_logs>>

C14_LockedSubmitFails == [][C14_StepLockedSubmitFails]_vars

\* a submit was refused with the policy-locked error on a locked policy
C14_Witness ==
    /\ Served("submit")
    /\ response.result = PolicyLocked
    /\ \E p \in Policies : policy_metadata[p].is_locked

(***************************************************************************)
(* C15: a successful submit is one atomic unit.  It is made on a policy    *)
(* whose status is draft or rejected; it sets the status to                *)
(* pending_approval and is_locked to true, adds exactly one instance with  *)
(* current_level 1, status in_progress and submitted_by the caller, and    *)
(* adds exactly one unlocked PolicyVersion whose snapshot document holds   *)
(* the structure of the live document.  A submit that does not succeed     *)
(* leaves the policy, the instances, the versions, the documents and the   *)
(* actions as they were.                                                   *)
(***************************************************************************)
\* the structure of the live document of the policy
LiveContent(docs, policy_id) ==
    {docs[k].document_structure : k \in LatestLiveDocuments(docs, policy_id)}

C15_StepSubmitAtomic ==
    \A p \in Policies, u \in Submitters :
        SubmitCall(p, u)
        => IF response'.result = "ok"
           THEN LET n == Len(policy_workflow_instances)
                    m == Len(policy_versions)
                IN /\ policy_metadata[p].status \in {"draft", "rejected"}
                   /\ policy_metadata'[p].status = "pending_approval"
                   /\ policy_metadata'[p].is_locked
                   /\ Len(policy_workflow_instances') = n + 1
                   /\ SubSeq(policy_workflow_instances', 1, n) = policy_workflow_instances
                   /\ policy_workflow_instances'[n + 1].policy_id = p
                   /\ policy_workflow_instances'[n + 1].current_level = 1
                   /\ policy_workflow_instances'[n + 1].status = "in_progress"
                   /\ policy_workflow_instances'[n + 1].submitted_by = u
                   /\ Len(policy_versions') = m + 1
                   /\ SubSeq(policy_versions', 1, m) = policy_versions
                   /\ policy_versions'[m + 1].policy_id = p
                   /\ ~policy_versions'[m + 1].is_locked
                   /\ LET d == policy_versions'[m + 1].mongo_snapshot_id
                      IN /\ d \in DOMAIN policy_documents'
                         /\ d \notin DOMAIN policy_documents
                         /\ policy_documents'[d].is_snapshot
                         /\ policy_documents'[d].document_structure
                                \in LiveContent(policy_documents, p)
                   /\ UNCHANGED workflow_actions
           ELSE UNCHANGED <<policy_metadata, policy_workflow_instances, policy_versions,
                            policy_documents, workflow_actions>>

C15_SubmitAtomic == [][C15_StepSubmitAtomic]_vars

\* a submit succeeded and snapshotted a structure saved after creation
C15_Witness ==
    /\ Succeeded("submit")
    /\ \E k \in DOMAIN policy_versions :
          /\ ~policy_versions[k].is_locked
          /\ policy_documents[policy_versions[k].mongo_snapshot_id].document_structure
                 \in Structures
    /\ \E i \in Instances :
          /\ policy_workflow_instances[i].status = "in_progress"
          /\ policy_workflow_instances[i].current_level = 1

(***************************************************************************)
(* C16. Every recorded approve action was made by an actor who held, at    *)
(* the time of the call, the role bound to the instance's current level or *)
(* the Admin override role; an approve by any other actor fails with the   *)
(* unauthorized-approver error and changes nothing.                        *)
(***************************************************************************)
UnauthorizedApprover == "You do not have the required role for this approval level"

\* the actor holds the role of the current level of the instance, or Admin
HoldsLevelRole(i, u) ==
    LET inst == policy_workflow_instances[i]
    IN \/ users[u].role_id =
              CurrentLevelObj(templates[inst.template_id], inst.current_level).role_id
       \/ users[u].role_id = AdminRoleName

\* the approve call added exactly one approve row of the caller at the level
RecordsApproval(i, u) ==
    /\ Len(workflow_actions') = Len(workflow_actions) + 1
    /\ SubSeq(workflow_actions', 1, Len(workflow_actions)) = workflow_actions
    /\ LET a == workflow_actions'[Len(workflow_actions')]
       IN /\ a.instance_id = i
          /\ a.user_id = u
          /\ a.action = "approve"
          /\ a.level_number = policy_workflow_instances[i].current_level

C16_StepUnauthorized ==
    \A i \in Instances, u \in Users :
        Approve(i, u)
        => /\ workflow_actions' # workflow_actions
                  => (HoldsLevelRole(i, u) /\ RecordsApproval(i, u))
           /\ ~HoldsLevelRole(i, u)
                  => /\ response'.result = UnauthorizedApprover
                     /\ UNCHANGED <<policy_metadata, policy_versions,
                                    policy_workflow_instances, workflow_actions,
                                    policy_documents, audit_logs>>

C16_StepRoleHolders ==
    \A i \in Instances, u \in Users :
        Approve(i, u)
        => /\ workflow_actions' # workflow_actions
                  => (HoldsLevelRole(i, u) /\ RecordsApproval(i, u))
           /\ ~HoldsLevelRole(i, u)
                  => /\ response'.result =
                            IF policy_workflow_instances[i].status # "in_progress"
                            THEN NotInProgress
                            ELSE IF policy_workflow_instances[i].submitted_by = u
                                 THEN SelfApproval ELSE UnauthorizedApprover
                     /\ UNCHANGED <<policy_metadata, policy_versions,
                                    policy_workflow_instances, workflow_actions,
                                    policy_documents, audit_logs>>

ApprovedLevels(actions, i) ==
    LET rows == SelectSeq(actions,
                    LAMBDA a : a.instance_id = i /\ a.action = "approve")
    IN [k \in DOMAIN rows |-> rows[k].level_number]

Sequential(levels) == \A k \in DOMAIN levels : ~levels[k].is_parallel

C17_OneApprovalPerLevel ==
    \A i \in Instances :
        LET inst == policy_workflow_instances[i]
            levels == templates[inst.template_id]
        IN (inst.status = "approved" /\ Sequential(levels))
           => ApprovedLevels(workflow_actions, i)
                 = [k \in 1..MaxLevelNumber(levels) |-> k]

C17_StepLevel ==
    \A i \in Instances :
        LET inst == policy_workflow_instances[i]
            after == policy_workflow_instances'[i]
            approved_now == /\ response'.op = "approve"
                            /\ response'.result = "ok"
                            /\ response'.instance_id = i
                            /\ workflow_actions' # workflow_actions
        IN /\ after.current_level # inst.current_level
                 => (approved_now /\ after.current_level = inst.current_level + 1)
           /\ (inst.status # "approved" /\ after.status = "approved")
                 => /\ approved_now
                    /\ inst.current_level = MaxLevelNumber(templates[inst.template_id])

C17_NoSilentApproval == [][C17_StepLevel /\ C17_OneApprovalPerLevel']_vars

(***************************************************************************)
(* C18. createSnapshot on a policy whose highest-numbered PolicyVersion is *)
(* locked always fails with the current-version-locked error and writes    *)
(* nothing: no snapshot document is inserted, no PolicyVersion row is      *)
(* added and policy.current_version is unchanged.                          *)
(***************************************************************************)
CurrentVersionLocked == "Current version is locked (approved)"

\* the highest-numbered PolicyVersion of the policy exists and is locked
HeadLocked(policy_id) ==
    /\ LatestVersions(policy_versions, policy_id) # {}
    /\ \A k \in LatestVersions(policy_versions, policy_id) : policy_versions[k].is_locked

C18_StepLockedSnapshot ==
    \A p \in Policies, u \in VersionActors :
        (CreateVersionSnapshot(p, u) /\ HeadLocked(p))
        => /\ response'.result = CurrentVersionLocked
           /\ UNCHANGED <<policy_documents, policy_versions, policy_metadata>>

C18_LockedSnapshotFails == [][C18_StepLockedSnapshot]_vars

\* a snapshot was refused on a policy whose head version is locked, with a
\* structure saved after that version was taken
C18_Witness ==
    /\ Served("create_version")
    /\ response.result = CurrentVersionLocked
    /\ HeadLocked("p1")
    /\ \E k \in DOMAIN policy_documents :
          /\ ~policy_documents[k].is_snapshot
          /\ policy_documents[k].document_structure \in Structures

(***************************************************************************)
(* C19. Version numbering: after any sequence and any interleaving of      *)
(* createSnapshot, rollback and submit calls on a policy, no two           *)
(* PolicyVersion rows of the policy share a version_number, every existing *)
(* version_number is strictly less than policy.current_version, and        *)
(* policy.current_version never decreases.                                 *)
(***************************************************************************)
C19_Numbering ==
    \A p \in Policies :
        /\ \A j, k \in DOMAIN policy_versions :
              (/\ policy_versions[j].policy_id = p
               /\ policy_versions[k].policy_id = p
               /\ policy_versions[j].version_number = policy_versions[k].version_number)
              => j = k
        /\ \A k \in DOMAIN policy_versions :
              policy_versions[k].policy_id = p
              => policy_versions[k].version_number < policy_metadata[p].current_version

C19_StepNumbering ==
    /\ C19_Numbering'
    /\ \A p \in Policies :
          policy_metadata'[p].current_version >= policy_metadata[p].current_version

C19_VersionNumbering == [][C19_StepNumbering]_vars

(***************************************************************************)
(* C20. PolicyVersion locking is monotone: a version's is_locked goes from *)
(* false to true at most once and never back; a lock call on a version     *)
(* that is already locked fails with the already-locked error, and a       *)
(* locked version keeps approved_by as the first lock set it.              *)
(***************************************************************************)
AlreadyLocked == "Version is already locked"

\* a locked row never changes again
C20_StepLockedStays ==
    \A k \in DOMAIN policy_versions :
        policy_versions[k].is_locked => policy_versions'[k] = policy_versions[k]

\* a lock call that answers ok took a row from unlocked to locked, stamped
\* with its caller, and changed no other row
C20_StepLockOnce ==
    (/\ \/ \E p \in Policies, v \in 1..MaxVersion, u \in Users : LockVersion(p, v, u)
        \/ \E r \in Requests : TxLockCommit(r)
     /\ response'.result = "ok")
    => \E k \in DOMAIN policy_versions :
          /\ ~policy_versions[k].is_locked
          /\ policy_versions'[k].is_locked
          /\ policy_versions'[k].approved_by \in Users
          /\ \A j \in DOMAIN policy_versions \ {k} :
                policy_versions'[j] = policy_versions[j]

\* a lock call that finds the row locked is refused
C20_StepRelockRefused ==
    \A p \in Policies, v \in 1..MaxVersion, u \in Users :
        /\ \/ LockVersion(p, v, u)
           \/ \E r \in Requests : TxLockBegin(r, p, v, u)
        /\ \E k \in VersionsNumbered(policy_versions, p, v) : policy_versions[k].is_locked
        => /\ response'.result = AlreadyLocked
           /\ UNCHANGED policy_versions

C20_LockMonotone ==
    [][C20_StepLockedStays /\ C20_StepLockOnce /\ C20_StepRelockRefused]_vars

(***************************************************************************)
(* C21. A successful rollback to version v changes no snapshot document:   *)
(* it overwrites the live document only, adds one PolicyVersion at the old *)
(* policy.current_version that references the snapshot of v, and           *)
(* increments current_version; afterwards v and the new head are both      *)
(* retrievable and the content of the head, like the live content, is the  *)
(* snapshot content of v.                                                  *)
(***************************************************************************)
\* get_version_detail: the structures returned for a version number
VersionDetail(versions, docs, policy_id, version_number) ==
    {docs[versions[k].mongo_snapshot_id].document_structure :
        k \in VersionsNumbered(versions, policy_id, version_number)}

C21_StepRollback ==
    \A p \in Policies, v \in 1..MaxVersion, u \in VersionActors :
        (RollbackToVersion(p, v, u) /\ response'.result = "ok")
        => LET m == Len(policy_versions)
               head == policy_metadata[p].current_version
               before == VersionDetail(policy_versions, policy_documents, p, v)
           IN /\ DOMAIN policy_documents' = DOMAIN policy_documents
              /\ \A d \in DOMAIN policy_documents :
                    policy_documents[d].is_snapshot
                    => policy_documents'[d] = policy_documents[d]
              /\ \E k \in DOMAIN policy_documents :
                    /\ ~policy_documents[k].is_snapshot
                    /\ \A j \in DOMAIN policy_documents \ {k} :
                          policy_documents'[j] = policy_documents[j]
              /\ Len(policy_versions') = m + 1
              /\ SubSeq(policy_versions', 1, m) = policy_versions
              /\ policy_versions'[m + 1].policy_id = p
              /\ policy_versions'[m + 1].version_number = head
              /\ \E k \in VersionsNumbered(policy_versions, p, v) :
                    policy_versions'[m + 1].mongo_snapshot_id
                        = policy_versions[k].mongo_snapshot_id
              /\ policy_metadata'[p] =
                     [policy_metadata[p] EXCEPT !.current_version = head + 1]
              /\ Cardinality(before) = 1
              /\ Cardinality(VersionsNumbered(policy_versions', p, v)) = 1
              /\ Cardinality(VersionsNumbered(policy_versions', p, head)) = 1
              /\ VersionDetail(policy_versions', policy_documents', p, v) = before
              /\ VersionDetail(policy_versions', policy_documents', p, head) = before
              /\ LiveContent(policy_documents', p) = before

SourceSnapshotMissing == "Version snapshot not found"

C22_StepRollbackErrors ==
    \A p \in Policies, v \in 1..MaxVersion, u \in VersionActors :
        RollbackToVersion(p, v, u)
        => /\ VersionsNumbered(policy_versions, p, v) = {}
                 => /\ response'.result = SourceSnapshotMissing
                    /\ UNCHANGED <<policy_documents, policy_versions, policy_metadata>>
           /\ HeadLocked(p)
                 => /\ response'.result = CurrentVersionLocked
                    /\ UNCHANGED <<policy_documents, policy_versions, policy_metadata>>

C22_RollbackErrors == [][C22_StepRollbackErrors]_vars

(***************************************************************************)
(* C22, amended. rollback fails with the current-version-locked error      *)
(* whenever the policy's latest PolicyVersion is locked, whatever version  *)
(* is requested, and with the source-snapshot-missing error when the       *)
(* latest PolicyVersion is not locked and no PolicyVersion exists for the  *)
(* requested version; it fails with these errors in no other case, and in  *)
(* both cases the documents, the PolicyVersion rows and the policy are     *)
(* unchanged.                                                              *)
(***************************************************************************)
C22_StepRollbackRefused ==
    \A p \in Policies, v \in 1..MaxVersion, u \in VersionActors :
        RollbackToVersion(p, v, u)
        => /\ HeadLocked(p)
                 => /\ response'.result = CurrentVersionLocked
                    /\ UNCHANGED <<policy_documents, policy_versions, policy_metadata>>
           /\ (~HeadLocked(p) /\ VersionsNumbered(policy_versions, p, v) = {})
                 => /\ response'.result = SourceSnapshotMissing
                    /\ UNCHANGED <<policy_documents, policy_versions, policy_metadata>>
           /\ response'.result = CurrentVersionLocked => HeadLocked(p)
           /\ response'.result = SourceSnapshotMissing
                 => VersionsNumbered(policy_versions, p, v) = {}

C22_RollbackRefused == [][C22_StepRollbackRefused]_vars

\* a rollback was refused on a locked head while the live structure differs
\* from the structure of every snapshot
C22_Witness ==
    /\ Served("rollback_version")
    /\ response.result = CurrentVersionLocked
    /\ HeadLocked("p1")
    /\ \A d \in DOMAIN policy_documents :
          policy_documents[d].is_snapshot
          => policy_documents[d].document_structure \notin LiveContent(policy_documents, "p1")

(***************************************************************************)
(* C23. While a policy's is_locked flag is true, no operation changes the  *)
(* policy's live content: a rollback or a structure save made in that      *)
(* state fails or leaves the live document unchanged.                      *)
(***************************************************************************)
C23_StepLockedContent ==
    \A p \in Policies :
        policy_metadata[p].is_locked
        => LiveContent(policy_documents', p) = LiveContent(policy_documents, p)

C23_LockedContentFrozen == [][C23_StepLockedContent]_vars

(***************************************************************************)
(* Templates                                                               *)
(***************************************************************************)
LevelNumbers(levels) == {levels[k].level_number : k \in DOMAIN levels}

\* The level numbers are 1..n, each once.
Contiguous(levels) ==
    /\ Len(levels) >= 1
    /\ LevelNumbers(levels) = 1..Len(levels)

\* C24: every stored template has at least one level and its level numbers
\* form the contiguous sequence 1..n without gaps or duplicates; a
\* create_template call on a level list that is empty or not such a sequence
\* fails and persists nothing.
C24_StepCreateContiguous ==
    /\ \A t \in DOMAIN templates' : Contiguous(templates'[t])
    /\ \A l \in TemplateRequests, r \in ValidatorReplies, u \in TemplateAdmins :
           (CreateTemplate(l, r, u) /\ ~Contiguous(l))
               => (response'.result # "ok" /\ templates' = templates)

C24_TemplatesContiguous == [][C24_StepCreateContiguous]_vars

\* C25: template creation is gated by the validator with no bypass: when the
\* validator's answer holds an issue of severity error, whatever its valid
\* flag says, or the validator call fails, create_template fails and no
\* template or level is persisted.
C25_StepValidatorGate ==
    \A l \in TemplateRequests, r \in ValidatorReplies, u \in TemplateAdmins :
        (CreateTemplate(l, r, u) /\ (~r.available \/ "error" \in r.issues))
            => /\ response'.op = "create_template"
               /\ response'.result \in {EmptyTemplate, ValidatorUnavailable, TemplateRejected}
               /\ templates' = templates
               /\ r.available => ~ParseValidationResult(r).valid

C25_ValidatorGate == [][C25_StepValidatorGate]_vars

\* A creation was refused on the validator's error issue and stored nothing.
C25_Witness ==
    /\ response.op = "create_template"
    /\ response.result = TemplateRejected
    /\ CreatedTemplates = {}

(***************************************************************************)
(* Actions                                                                 *)
(***************************************************************************)
\* C26: actions are append-only and stamped with the level at which they
\* were taken: no call modifies or removes an existing action, and the
\* action an approve or reject call adds carries the instance's
\* current_level as it was at the start of that call, before any advancement.
C26_StepActionsAppendOnly ==
    /\ Len(workflow_actions') \in {Len(workflow_actions), Len(workflow_actions) + 1}
    /\ SubSeq(workflow_actions', 1, Len(workflow_actions)) = workflow_actions
    /\ Len(workflow_actions') = Len(workflow_actions) + 1 =>
           LET a == workflow_actions'[Len(workflow_actions')]
           IN /\ response'.op \in {"approve", "reject"}
              /\ response'.result = "ok"
              /\ a.action = response'.op
              /\ a.instance_id = response'.instance_id
              /\ a.user_id = response'.user_id
              /\ a.level_number = policy_workflow_instances[a.instance_id].current_level
    /\ \A p \in Policies, t \in TemplateIds, u \in Submitters :
           Submit(p, t, u) => workflow_actions' = workflow_actions

C26_ActionsAppendOnly == [][C26_StepActionsAppendOnly]_vars

\* An approved two-level instance whose actions keep the levels 1 and 2 at
\* which they were taken.
C26_Witness ==
    \E i \in DOMAIN policy_workflow_instances :
        /\ policy_workflow_instances[i].status = "approved"
        /\ policy_workflow_instances[i].current_level = 2
        /\ {ActionsOf(workflow_actions, i)[k].level_number :
                k \in DOMAIN ActionsOf(workflow_actions, i)} = {1, 2}

(***************************************************************************)
(* Resubmission                                                            *)
(***************************************************************************)
\* The policy is as a rejection left it: some instance of it is rejected,
\* its status is rejected and it is open for editing.
AfterRejection(p) ==
    /\ \E i \in DOMAIN policy_workflow_instances :
           /\ policy_workflow_instances[i].policy_id = p
           /\ policy_workflow_instances[i].status = "rejected"
    /\ policy_metadata[p].status = "rejected"
    /\ ~policy_metadata[p].is_locked

\* A successful submit added one instance at level 1 without actions and
\* left the instances and actions there were as they are.
NewInstanceOnly(p) ==
    LET n == Len(policy_workflow_instances) IN
    /\ Len(policy_workflow_instances') = n + 1
    /\ SubSeq(policy_workflow_instances', 1, n) = policy_workflow_instances
    /\ policy_workflow_instances'[n + 1].policy_id = p
    /\ policy_workflow_instances'[n + 1].status = "in_progress"
    /\ policy_workflow_instances'[n + 1].current_level = 1
    /\ response'.instance_id = n + 1
    /\ workflow_actions' = workflow_actions
    /\ ActionsOf(workflow_actions', n + 1) = << >>

\* C27 as stated: after a rejection, a new submit for the same policy with
\* a non-empty template is not refused and creates a different instance at
\* current_level 1 with no actions, while the rejected instance keeps its
\* status, its current_level and its actions.
C27_StepResubmit ==
    \A p \in Policies, t \in TemplateIds, u \in Submitters :
        (Submit(p, t, u) /\ AfterRejection(p) /\ Len(templates[t]) > 0)
            => /\ response'.result \in {"ok", InternalServerError}
               /\ response'.result = "ok" => NewInstanceOnly(p)

C27_StepResubmitUnlocked ==
    \A p \in Policies, t \in TemplateIds, u \in Submitters :
        (Submit(p, t, u) /\ AfterRejection(p) /\ Len(templates[t]) > 0
            /\ ~HeadLocked(p))
            => /\ response'.result \in {"ok", InternalServerError}
               /\ response'.result = "ok" => NewInstanceOnly(p)

WorkflowRows ==
    <<policy_metadata, policy_versions, policy_workflow_instances,
      workflow_actions, audit_logs, policy_documents>>

\* The policy or the template does not allow a submit.
SubmitNotAllowed(p, t) ==
    \/ policy_metadata[p].status = "validation_failed"
    \/ LatestDocuments(policy_documents, p) = {}
    \/ policy_metadata[p].status \notin {"draft", "rejected"}
    \/ policy_metadata[p].is_locked
    \/ t \notin DOMAIN templates
    \/ Len(templates[t]) = 0

\* The instance or the actor does not allow an approve.
ApproveNotAllowed(i, u) ==
    \/ policy_workflow_instances[i].status # "in_progress"
    \/ policy_workflow_instances[i].submitted_by = u
    \/ ~HoldsLevelRole(i, u)

\* C28: an approve, reject or submit call that fails a precondition (wrong
\* instance state, self-approval, wrong role, wrong policy status, locked
\* policy, empty or missing template, unvalidated structure) is refused and
\* changes nothing: no action, instance or policy field, PolicyVersion,
\* document or audit record is added or modified.
C28_StepRefusedChangesNothing ==
    /\ \A p \in Policies, in \in SubmitInputs :
           (/\ response'.op = "submit" /\ response'.user_id = in[2]
            /\ SubmitNotAllowed(p, in[1])
            /\ Submit(p, in[1], in[2]))
               => (response'.result \notin {"ok", InternalServerError}
                   /\ UNCHANGED WorkflowRows)
    /\ \A i \in DOMAIN policy_workflow_instances, u \in Users :
           (/\ response'.op = "approve"
            /\ response'.instance_id = i /\ response'.user_id = u
            /\ ApproveNotAllowed(i, u)
            /\ Approve(i, u))
               => (response'.result \notin {"ok", InternalServerError}
                   /\ UNCHANGED WorkflowRows)
    /\ \A i \in DOMAIN policy_workflow_instances, u \in Rejecters :
           (/\ response'.op = "reject"
            /\ response'.instance_id = i /\ response'.user_id = u
            /\ policy_workflow_instances[i].status # "in_progress"
            /\ Reject(i, u))
               => (response'.result = NotInProgress /\ UNCHANGED WorkflowRows)

C28_RefusedChangesNothing == [][C28_StepRefusedChangesNothing]_vars

\* A reject of an approved instance was refused; its approvals are the only
\* actions.
C28_Witness ==
    /\ response.op = "reject"
    /\ response.result = NotInProgress
    /\ policy_workflow_instances[response.instance_id].status = "approved"
    /\ \A k \in DOMAIN workflow_actions : workflow_actions[k].action = "approve"
    /\ policy_metadata["p1"].status = "approved"

(***************************************************************************)
(* Current level                                                           *)
(***************************************************************************)
LevelNotFound == "Current level not found in template"

\* C29: the current_level of every in_progress instance is the
\* level_number of a level of its template, between 1 and the template's
\* maximum, and no approve is refused because the current level is not
\* found in the template.
C29_CurrentLevelInTemplate ==
    /\ \A i \in DOMAIN policy_workflow_instances :
           LET inst == policy_workflow_instances[i]
           IN inst.status = "in_progress" =>
                  /\ inst.current_level \in LevelNumbers(templates[inst.template_id])
                  /\ 1 <= inst.current_level
                  /\ inst.current_level <= MaxLevelNumber(templates[inst.template_id])
    /\ response.result # LevelNotFound

(***************************************************************************)
(* Structural diff                                                         *)
(***************************************************************************)
Present(structure) == ~Falsy(structure)

ChangeTypes(changes) == {e.type : e \in changes}

\* The answer of a served comparison.
Compared == response.op = "compare_versions" /\ response.result.status = "ok"

\* Section k is the last one of the list with its title.
LastWithTitle(sections, k) ==
    \A j \in DOMAIN sections : j > k => sections[j].title # sections[k].title

\* Every title common to both structures stands for sections with the same
\* number of subsections; a title that repeats within a structure stands
\* for the last section carrying it.
SameSubsectionsOfLast(base, compare) ==
    \A i \in DOMAIN base.sections, j \in DOMAIN compare.sections :
        (/\ base.sections[i].title = compare.sections[j].title
         /\ LastWithTitle(base.sections, i)
         /\ LastWithTitle(compare.sections, j))
            => Len(base.sections[i].subsections) = Len(compare.sections[j].subsections)

\* What the diff answers apart from the test on subsections.
DiffShape(same_subsections) ==
    LET base == response.result.base_structure
        compare == response.result.compare_structure
        changes == response.result.changes
    IN /\ (Present(base) /\ Present(compare)) =>
              /\ changes = {Unchanged} <=>
                     /\ base.header = compare.header
                     /\ Titles(base.sections) = Titles(compare.sections)
                     /\ same_subsections
              /\ changes # {Unchanged} =>
                     /\ changes # {}
                     /\ ChangeTypes(changes) \subseteq {"added", "removed", "modified"}
       /\ (Falsy(base) /\ Falsy(compare)) => changes = {}
       /\ (Falsy(base) /\ Present(compare)) =>
              (Cardinality(changes) = 1 /\ ChangeTypes(changes) = {"added"})
       /\ (Present(base) /\ Falsy(compare)) =>
              (Cardinality(changes) = 1 /\ ChangeTypes(changes) = {"removed"})

\* C30: the diff of two present structures is the single entry 'unchanged'
\* exactly when their headers are equal, their sets of section titles are
\* equal and every common section has the same number of subsections;
\* otherwise it holds added, removed and modified entries only and no
\* 'unchanged' entry.  With both structures missing it is empty, with
\* exactly one missing it is one entry, 'added' if the base is missing and
\* 'removed' if the compared one is.
C30_Diff ==
    Compared => DiffShape(SameSubsectionsOfLast(response.result.base_structure,
                                                response.result.compare_structure))

\* Two different two-section structures were compared and found unchanged.
C30_Witness ==
    /\ Compared
    /\ response.result.changes = {Unchanged}
    /\ Present(response.result.base_structure)
    /\ Len(response.result.base_structure.sections) = 2
    /\ Titles(response.result.base_structure.sections) = SectionTitles
    /\ response.result.base_structure # response.result.compare_structure

====
